---- MODULE Spec2Model ----
(***************************************************************************)
(* A model of create_AOI.py: the AOI builder that turns a job context into *)
(* a dataset record and a metadata record and saves them as a product.     *)
(*                                                                         *)
(* Python values are modelled as follows.                                  *)
(*   - a str is a sequence of one-character strings (<<"A","O","I","_">>); *)
(*   - a dict is a function whose DOMAIN is its set of keys;               *)
(*   - a value whose Python type the code inspects (type(x) is str,        *)
(*     isinstance(x, list), type(x) is not dict) is a tagged record        *)
(*     [t |-> "str" | "list" | "dict" | "none", ...];                      *)
(*   - a call that may raise returns [ok |-> TRUE, val |-> v] or           *)
(*     [ok |-> FALSE, err |-> e].                                          *)
(***************************************************************************)
EXTENDS Integers, Sequences, FiniteSets, TLC

VARIABLES
    context,    \* the job context loaded from _context.json (main, line 23)
    dsTemplate, \* config/AOI.dataset.json as loaded (main, line 25)
    ds,         \* the dataset record being built
    met,        \* the metadata record being built
    pc,         \* the position of the run
    exc,        \* the exception the run raised, "none" while there is none
    dirs,       \* the directories that exist in the working directory
    madeDirs,   \* the directories this run created with os.mkdir
    label,      \* save_files' local label: ds['label'] on entry (line 184)
    files,      \* path -> content of the files in the working directory
    writes,     \* the sequence of paths this run wrote with json.dump
    geoTif,     \* whether generate_browse_imagery left <label>.geo.tif
    tilesRun,   \* whether gdal2tiles.py was invoked (os.system)
    emailsSent, \* the subjects of the emails handed to send_email
    result      \* the value returned by the function under test

vars == <<context, dsTemplate, ds, met, pc, exc, dirs, madeDirs, label,
          files, writes, geoTif, tilesRun, emailsSent, result>>

----------------------------------------------------------------------------
(* Bounds of the model. *)

\* longest AOI name drawn for generate_label
MaxNameLen == 5
\* longest comma-separated emails string drawn for parse_emails
MaxEmailsLen == 4
\* longest template emails list
MaxTemplateEmails == 2
\* longest ring drawn for validate_geojson
MaxRingLen == 4

----------------------------------------------------------------------------
(* Strings. *)

\* the sequences over S of length at most n
SeqsUpTo(S, n) == UNION {[1..k -> S] : k \in 0..n}

Range(s) == {s[i] : i \in DOMAIN s}

\* str.replace(old, new) for one-character old and new
Replace(s, old, new) == [i \in DOMAIN s |-> IF s[i] = old THEN new ELSE s[i]]

\* str.replace(old, '') for a one-character old
Remove(s, old) == SelectSeq(s, LAMBDA c : c # old)

\* str.startswith(prefix)
StartsWith(s, prefix) ==
    /\ Len(s) >= Len(prefix)
    /\ SubSeq(s, 1, Len(prefix)) = prefix

\* str.lstrip(chars): drops leading characters as long as they are in chars
RECURSIVE LStrip(_, _)
LStrip(s, chars) ==
    IF s # <<>> /\ Head(s) \in chars THEN LStrip(Tail(s), chars) ELSE s

\* str.split(sep) for a one-character sep: never empty, '' splits to ['']
RECURSIVE Split(_, _)
Split(s, sep) ==
    IF \A i \in DOMAIN s : s[i] # sep
    THEN <<s>>
    ELSE LET k == CHOOSE i \in DOMAIN s :
                      s[i] = sep /\ \A j \in 1..(i - 1) : s[j] # sep
         IN  <<SubSeq(s, 1, k - 1)>> \o Split(SubSeq(s, k + 1, Len(s)), sep)

\* the character class [a-zA-Z0-9_] of the two re.sub calls
WordChars ==
    {"a","b","c","d","e","f","g","h","i","j","k","l","m",
     "n","o","p","q","r","s","t","u","v","w","x","y","z",
     "A","B","C","D","E","F","G","H","I","J","K","L","M",
     "N","O","P","Q","R","S","T","U","V","W","X","Y","Z",
     "0","1","2","3","4","5","6","7","8","9","_"}

AOI_ == <<"A", "O", "I", "_">>

----------------------------------------------------------------------------
(* Label and type. *)

\* re.sub(r"[^a-zA-Z0-9_]+", '', text.replace(' ', '_'))
Sanitize(text) == SelectSeq(Replace(text, " ", "_"), LAMBDA c : c \in WordChars)

validate_type(aoi_type) == Sanitize(aoi_type)

\* a prefix strip that removes the literal 'AOI_' once
StripPrefixLiteral(l) == SubSeq(l, Len(AOI_) + 1, Len(l))

\* label.lstrip('AOI_'): strips the character set {A, O, I, _}
StripPrefix(l) == LStrip(l, Range(AOI_))

generate_label(name, aoi_type) ==
    LET l == Sanitize(name)
        n == IF StartsWith(l, AOI_) THEN StripPrefix(l) ELSE l
    IN  AOI_ \o aoi_type \o <<"_">> \o n

----------------------------------------------------------------------------
(* Results of calls that may raise. *)

Ok(v) == [ok |-> TRUE, val |-> v]
Raise(e) == [ok |-> FALSE, err |-> e]

\* the messages of the three raise statements of the validators, and the
\* exceptions Python itself raises on the paths the model covers
TimeParseError == "unable to parse input time"
GeometryStringError == "unable to parse input geojson string"
GeometryParseError == "unable to parse geojson"
MetadataParseError == "additional metadata cannot be parsed"
UnboundLocalError == "UnboundLocalError: email_list"
KeyErrorUsername == "KeyError: username"
AttributeErrorKeys == "AttributeError: keys"
OSErrorMkdir == "OSError: mkdir"
IOErrorWrite == "IOError: open"

FatalValidationErrors ==
    {TimeParseError, GeometryStringError, GeometryParseError, MetadataParseError}

----------------------------------------------------------------------------
(* Time.  A time string is an opaque token; dateutil.parser.parse followed  *)
(* by strftime('%Y-%m-%dT%H:%M:%SZ') is the table ParseAndFormat.           *)

GoodTime == "2021-03-01 10:00"
GoodTimeLoose == "March 1 2021 10:00am"
LaterTime == "2021-03-02T00:00:00Z"
BadTime == "not a date"

ParseAndFormat(s) ==
    CASE s = GoodTime -> Ok("2021-03-01T10:00:00Z")
      [] s = GoodTimeLoose -> Ok("2021-03-01T10:00:00Z")
      [] s = LaterTime -> Ok("2021-03-02T00:00:00Z")
      [] OTHER -> Raise("ParserError")

validate_time(input_time_string) ==
    LET r == ParseAndFormat(input_time_string)
    IN  IF r.ok THEN r ELSE Raise(TimeParseError)

\* returns None for '': [ok |-> TRUE, none |-> TRUE]
validate_event_time(input_time_string) ==
    IF input_time_string = ""
    THEN [ok |-> TRUE, none |-> TRUE]
    ELSE LET r == ParseAndFormat(input_time_string)
         IN  IF r.ok
             THEN [ok |-> TRUE, none |-> FALSE, val |-> r.val]
             ELSE Raise(TimeParseError)

----------------------------------------------------------------------------
(* Emails.  The context's emails value is [t |-> "list", l |-> <<str>>] or  *)
(* [t |-> "str", s |-> str].                                               *)

validate_email(email) == Remove(email, " ")

parse_emails(emails) ==
    IF emails.t = "list"
    THEN [i \in DOMAIN emails.l |-> validate_email(emails.l[i])]
    ELSE LET email_list == Split(emails.s, ",")
         IN  [i \in DOMAIN email_list |-> validate_email(email_list[i])]

\* the merge without set(): email_list + additional_emails as it is
ListNoSet(l) == {l}

\* list(set(email_list + additional_emails)): the orders a set may list in
ListOfSet(l) ==
    LET S == Range(l)
    IN  {p \in [1..Cardinality(S) -> S] : Range(p) = S}

----------------------------------------------------------------------------
(* Geometry.  A ring is a sequence of points <<x, y>>.  The context's       *)
(* geojson_polygon is                                                       *)
(*   [t |-> "list", ring |-> r]            a bare ring,                     *)
(*   [t |-> "dict", d |-> m]               a mapping,                       *)
(*   [t |-> "str", syntax |-> x, denotes |-> v]  a string that is JSON      *)
(*       (x = "json"), a Python literal that is not JSON such as a dict     *)
(*       written with single quotes (x = "literal"), or neither             *)
(*       (x = "neither"), and that denotes the list or dict v.              *)

\* json.loads(s)
json_loads(s) ==
    IF s.syntax = "json" THEN Ok(s.denotes) ELSE Raise("JSONDecodeError")

\* ast.literal_eval(s): every JSON text made of numbers, strings, lists and
\* dicts is a Python literal too
literal_eval(s) ==
    IF s.syntax \in {"json", "literal"} THEN Ok(s.denotes) ELSE Raise("SyntaxError")

\* the try/except chain of lines 129-135 and 75-81
Decode(s) ==
    IF json_loads(s).ok THEN json_loads(s) ELSE literal_eval(s)

\* shapely closes a ring whose last point is not its first
CloseRing(ring) ==
    IF ring[1] = ring[Len(ring)] THEN ring ELSE Append(ring, ring[1])

\* mapping(Polygon(ring)) for a non-empty ring of points: a linear ring needs
\* three coordinate tuples
PolygonMapping(ring) ==
    IF Len(ring) < 3
    THEN Raise("ValueError")
    ELSE Ok([type |-> "Polygon", coordinates |-> <<CloseRing(ring)>>])

\* lines 137-148: the body of the try, the except turning every failure
\* into GeometryParseError
ParseCoordinates(g) ==
    LET r == IF g.t # "dict"
             THEN Raise(AttributeErrorKeys)       \* a list has no keys()
             ELSE IF "coordinates" \in DOMAIN g.d
             THEN IF g.d.coordinates = <<>>
                  THEN Raise("IndexError")
                  ELSE PolygonMapping(g.d.coordinates[1])
             ELSE Raise("TypeError")              \* Polygon(dict)
    IN  IF r.ok THEN r ELSE Raise(GeometryParseError)

validate_geojson(input_geojson) ==
    IF input_geojson.t = "str"
    THEN IF Decode(input_geojson).ok
         THEN ParseCoordinates(Decode(input_geojson).val)
         ELSE Raise(GeometryStringError)
    ELSE ParseCoordinates(input_geojson)

----------------------------------------------------------------------------
(* Dicts. *)

EmptyDict == [k \in {} |-> 0]

\* d[k] = v
Put(d, k, v) == [x \in DOMAIN d \cup {k} |-> IF x = k THEN v ELSE d[x]]

\* a run of assignments d[k] = new[k]
Update(d, new) ==
    [x \in DOMAIN d \cup DOMAIN new |-> IF x \in DOMAIN new THEN new[x] ELSE d[x]]

----------------------------------------------------------------------------
(* The dataset record. *)

\* build_aoi_ds: the set of its possible outcomes, one per order in which
\* list(set(...)) may list the merged emails.  email_list is bound only
\* under the if of line 42, and read at line 53.
build_aoi_ds(ctx, d) ==
    LET aoi_type == validate_type(ctx.type)
        ds_label == generate_label(ctx.name, aoi_type)
        project == ctx.account
        polygon_geojson == validate_geojson(ctx.geojson_polygon)
        starttime == validate_time(ctx.starttime)
        endtime == validate_time(ctx.endtime)
    IN  IF ~polygon_geojson.ok THEN {polygon_geojson}
        ELSE IF ~starttime.ok THEN {starttime}
        ELSE IF ~endtime.ok THEN {endtime}
        ELSE IF "emails" \notin DOMAIN ctx THEN {Raise(UnboundLocalError)}
        ELSE {Ok(Update(d, [label |-> ds_label,
                            type |-> aoi_type,
                            account |-> project,
                            location |-> polygon_geojson.val,
                            starttime |-> starttime.val,
                            endtime |-> endtime.val,
                            emails |-> email_list])) :
                email_list \in ListOfSet(d.emails \o parse_emails(ctx.emails))}

----------------------------------------------------------------------------
(* The metadata record.  additional_metadata is                             *)
(*   [t |-> "none"]          None,                                          *)
(*   [t |-> "empty"]         the empty string '',                           *)
(*   [t |-> "dict", d |-> m] a mapping,                                     *)
(*   [t |-> "str", syntax |-> x, denotes |-> v]  a non-empty string,        *)
(*   [t |-> "list", l |-> s] a value that is neither a dict nor a string.   *)

\* the key tested at line 83
UsernameTestKey == "user"

\* lines 83-93, on a value that has been decoded
CopyAdditional(additional_met, m) ==
    IF additional_met.t # "dict"
    THEN Raise(AttributeErrorKeys)
    ELSE
    LET a == additional_met.d
        et == IF "eventtime" \in DOMAIN a
              THEN validate_event_time(a.eventtime)
              ELSE [ok |-> TRUE, none |-> TRUE]
        m1 == IF UsernameTestKey \in DOMAIN a THEN Put(m, "username", a.username) ELSE m
        m2 == IF ~et.none THEN Put(m1, "eventtime", et.val) ELSE m1
        m3 == IF "image_url" \in DOMAIN a THEN Put(m2, "image_url", a.image_url) ELSE m2
        m4 == IF "event_metadata" \in DOMAIN a
              THEN Put(m3, "event_metadata", a.event_metadata)
              ELSE m3
    IN  IF UsernameTestKey \in DOMAIN a /\ "username" \notin DOMAIN a
        THEN Raise(KeyErrorUsername)
        ELSE IF ~et.ok THEN et
        ELSE Ok(m4)

parse_additional_metadata(additional_met, m) ==
    IF additional_met.t \in {"empty", "none"}
    THEN Ok(m)
    ELSE IF additional_met.t = "dict"
    THEN CopyAdditional(additional_met, m)
    ELSE IF additional_met.t = "str" /\ Decode(additional_met).ok
    THEN CopyAdditional(Decode(additional_met).val, m)
    ELSE Raise(MetadataParseError)

build_aoi_met(ctx, m) ==
    LET et == IF "eventtime" \in DOMAIN ctx
              THEN validate_event_time(ctx.eventtime)
              ELSE [ok |-> TRUE, none |-> TRUE]
        m1 == IF "username" \in DOMAIN ctx THEN Put(m, "username", ctx.username) ELSE m
        m2 == IF ~et.none THEN Put(m1, "eventtime", et.val) ELSE m1
        m3 == IF "image_url" \in DOMAIN ctx THEN Put(m2, "image_url", ctx.image_url) ELSE m2
    IN  IF ~et.ok THEN et
        ELSE IF "additional_metadata" \in DOMAIN ctx
        THEN parse_additional_metadata(ctx.additional_metadata, m3)
        ELSE Ok(m3)

----------------------------------------------------------------------------
(* Files.  A path is [dir |-> label, base |-> str, ext |-> e]:              *)
(* os.path.join(dir, base + '.' + ext), or os.path.join(dir, ext) when base *)
(* is empty.                                                                *)

Path(dir, base, ext) == [dir |-> dir, base |-> base, ext |-> ext]

ds_path(l) == Path(l, l, "dataset.json")
met_path(l) == Path(l, l, "met.json")
TilesDir(l) == l \o <<"/", "t", "i", "l", "e", "s">>

\* the label with lines 190-193 left out
LabelNoOverride(d, m) == d.label

\* the label save_files puts in the dataset record before it dumps it:
\* met['event_metadata']['label'] when that lookup does not raise
LabelToSave(d, m) ==
    IF /\ "event_metadata" \in DOMAIN m
       /\ m.event_metadata.t = "dict"
       /\ "label" \in DOMAIN m.event_metadata.d
    THEN m.event_metadata.d.label
    ELSE d.label

----------------------------------------------------------------------------
(* The run of the script: main, then save_files step by step.               *)

Fail(e) ==
    /\ exc' = e
    /\ pc' = "raised"

Png == "png"

\* line 28
BuildDs ==
    /\ pc = "build_ds"
    /\ \E r \in build_aoi_ds(context, dsTemplate) :
         IF r.ok
         THEN ds' = r.val /\ pc' = "build_met" /\ exc' = exc
         ELSE ds' = ds /\ Fail(r.err)
    /\ UNCHANGED <<context, dsTemplate, met, dirs, madeDirs, label, files,
                   writes, geoTif, tilesRun, emailsSent, result>>

\* line 29
BuildMet ==
    /\ pc = "build_met"
    /\ LET r == build_aoi_met(context, met)
       IN  IF r.ok
           THEN met' = r.val /\ pc' = "save_mkdir" /\ exc' = exc
           ELSE met' = met /\ Fail(r.err)
    /\ UNCHANGED <<context, dsTemplate, ds, dirs, madeDirs, label, files,
                   writes, geoTif, tilesRun, emailsSent, result>>

\* the mkdir of line 186 done before build_aoi_met has validated its input
SaveMkdirBeforeBuildMet ==
    /\ pc = "build_met"
    /\ ds.label \notin dirs
    /\ dirs' = dirs \cup {ds.label}
    /\ madeDirs' = madeDirs \cup {ds.label}
    /\ UNCHANGED <<context, dsTemplate, ds, met, pc, exc, label, files, writes,
                   geoTif, tilesRun, emailsSent, result>>

\* lines 184-186: os.mkdir unless the directory exists; mkdir may fail
SaveMkdir ==
    /\ pc = "save_mkdir"
    /\ label' = ds.label
    /\ IF ds.label \in dirs
       THEN /\ pc' = "save_write"
            /\ UNCHANGED <<dirs, madeDirs, exc>>
       ELSE \/ /\ dirs' = dirs \cup {ds.label}
               /\ madeDirs' = madeDirs \cup {ds.label}
               /\ pc' = "save_write"
               /\ exc' = exc
            \/ /\ Fail(OSErrorMkdir)
               /\ UNCHANGED <<dirs, madeDirs>>
    /\ UNCHANGED <<context, dsTemplate, ds, met, files, writes, geoTif,
                   tilesRun, emailsSent, result>>

\* lines 187-197: the label override, then the two dumps; an open may fail
SaveWrite ==
    /\ pc = "save_write"
    /\ LET d == Put(ds, "label", LabelToSave(ds, met))
       IN  /\ ds' = d
           /\ \/ /\ files' = Put(Put(files, ds_path(label), d), met_path(label), met)
                 /\ writes' = writes \o <<ds_path(label), met_path(label)>>
                 /\ pc' = IF "image_url" \in DOMAIN met
                          THEN "download_browse"
                          ELSE "generate_browse"
                 /\ exc' = exc
              \/ /\ files' = Put(files, ds_path(label), d)
                 /\ writes' = Append(writes, ds_path(label))
                 /\ Fail(IOErrorWrite)
              \/ /\ UNCHANGED <<files, writes>>
                 /\ Fail(IOErrorWrite)
    /\ UNCHANGED <<context, dsTemplate, met, dirs, madeDirs, label, geoTif,
                   tilesRun, emailsSent, result>>

\* download_browse without its try/except: a failed osaka get is raised
DownloadBrowseUnguarded ==
    /\ pc = "download_browse"
    /\ \/ /\ files' = Put(Put(files, Path(label, <<>>, "browse.png"), Png),
                          Path(label, <<>>, "browse_small.png"), Png)
          /\ pc' = "returned"
          /\ exc' = exc
       \/ /\ files' = files
          /\ Fail("OsakaError")
    /\ UNCHANGED <<context, dsTemplate, ds, met, dirs, madeDirs, label, writes,
                   geoTif, tilesRun, emailsSent, result>>

\* lines 168-180 under line 201: every failure is swallowed
DownloadBrowse ==
    /\ pc = "download_browse"
    /\ \E outcome \in {"get_failed", "move_failed", "copy_failed", "ok"} :
         files' =
           CASE outcome = "get_failed" -> files
             [] outcome = "move_failed" -> Put(files, Path(label, <<>>, "basename(url)"), Png)
             [] outcome = "copy_failed" -> Put(files, Path(label, <<>>, "browse.png"), Png)
             [] outcome = "ok" ->
                  Put(Put(files, Path(label, <<>>, "browse.png"), Png),
                      Path(label, <<>>, "browse_small.png"), Png)
    /\ pc' = "returned"
    /\ UNCHANGED <<context, dsTemplate, ds, met, exc, dirs, madeDirs, label,
                   writes, geoTif, tilesRun, emailsSent, result>>

\* lines 204-215: the lazy import, generate and the copy; what generate
\* leaves behind is the package's choice, and any of the three may raise
GenerateBrowse ==
    /\ pc = "generate_browse"
    /\ \/ /\ pc' = "returned"                       \* the import raises
          /\ UNCHANGED <<files, geoTif>>
       \/ \E browse \in BOOLEAN, tif \in BOOLEAN, raised \in BOOLEAN, copied \in BOOLEAN :
            LET f1 == IF browse
                      THEN Put(files, Path(label, label, "browse.png"), Png)
                      ELSE files
                f2 == IF browse /\ ~raised /\ copied
                      THEN Put(f1, Path(label, label, "browse_small.png"), Png)
                      ELSE f1
            IN  /\ files' = f2
                /\ geoTif' = tif
                /\ pc' = IF raised \/ (browse /\ ~copied)
                         THEN "returned"
                         ELSE "generate_kml"
    /\ UNCHANGED <<context, dsTemplate, ds, met, exc, dirs, madeDirs, label,
                   writes, tilesRun, emailsSent, result>>

\* lines 225-235 under line 217: returns False without the input file, else
\* makes the tiles directory and runs gdal2tiles.py; a raise ends save_files
GenerateKml ==
    /\ pc = "generate_kml"
    /\ IF ~geoTif
       THEN /\ pc' = "set_tiles"
            /\ UNCHANGED <<dirs, madeDirs, tilesRun>>
       ELSE \/ /\ dirs' = dirs \cup {TilesDir(label)}
               /\ madeDirs' = IF TilesDir(label) \in dirs
                              THEN madeDirs
                              ELSE madeDirs \cup {TilesDir(label)}
               /\ tilesRun' = TRUE
               /\ pc' = "set_tiles"
            \/ /\ TilesDir(label) \notin dirs         \* os.mkdir raises
               /\ pc' = "returned"
               /\ UNCHANGED <<dirs, madeDirs, tilesRun>>
    /\ UNCHANGED <<context, dsTemplate, ds, met, exc, label, files, writes,
                   geoTif, emailsSent, result>>

\* lines 218-221: set the flag and dump met again; a failed open is swallowed
RewriteMet ==
    /\ pc = "set_tiles"
    /\ met' = Put(met, "tiles", TRUE)
    /\ \/ /\ files' = Put(files, met_path(label), met')
          /\ writes' = Append(writes, met_path(label))
       \/ UNCHANGED <<files, writes>>
    /\ pc' = "returned"
    /\ UNCHANGED <<context, dsTemplate, ds, exc, dirs, madeDirs, label, geoTif,
                   tilesRun, emailsSent, result>>

\* lines 32 and 314: main returns (ds, met); the script ends, the call of
\* send_success_email being commented out (line 318)
MainReturn ==
    /\ pc = "returned"
    /\ result' = [ds |-> ds, met |-> met]
    /\ pc' = "exit"
    /\ UNCHANGED <<context, dsTemplate, ds, met, exc, dirs, madeDirs, label,
                   files, writes, geoTif, tilesRun, emailsSent>>

\* line 314 when main raises: nothing catches the exception, the try/except
\* around main being commented out (lines 313, 315-317)
Uncaught ==
    /\ pc = "raised"
    /\ pc' = "crashed"
    /\ UNCHANGED <<context, dsTemplate, ds, met, exc, dirs, madeDirs, label,
                   files, writes, geoTif, tilesRun, emailsSent, result>>

----------------------------------------------------------------------------
(* The inputs of the run. *)

\* an optional key of a dict
Opt(S) == {[has |-> FALSE]} \cup {[has |-> TRUE, v |-> x] : x \in S}
WithOpt(d, k, o) == IF o.has THEN Put(d, k, o.v) ELSE d

Str(s) == [t |-> "str", s |-> s]
List(l) == [t |-> "list", l |-> l]
Dict(d) == [t |-> "dict", d |-> d]
Encoded(syntax, v) == [t |-> "str", syntax |-> syntax, denotes |-> v]

Square == <<<<0, 0>>, <<0, 1>>, <<1, 1>>, <<1, 0>>, <<0, 0>>>>
Ring(r) == [t |-> "list", ring |-> r]
Geometry(r) == Dict([type |-> "Polygon", coordinates |-> <<r>>])

EventLabel == <<"E", "V", "T">>

MainNames == {<<"A", "O", "I", "_", "I", "z">>, <<"z", "!">>}
MainTypes == {<<"f", " ", "e">>}
MainGeometries == {Geometry(Square), Ring(Square), Encoded("neither", Ring(Square))}
MainStartTimes == {GoodTime, BadTime}
MainEmails == {Str(<<"a", ",", " ", "b">>)}
MainEventTimes == {"", GoodTimeLoose, BadTime}
MainAdditional ==
    {[t |-> "none"], [t |-> "empty"], List(<<>>),
     Encoded("neither", Dict(EmptyDict)),
     Encoded("json", Dict([event_metadata |-> Dict([label |-> EventLabel])])),
     Encoded("literal", Dict([image_url |-> "http://h/add.png"])),
     Encoded("json", List(<<>>)),
     Dict(EmptyDict),
     Dict([username |-> "bob"]),
     Dict([user |-> "bob", username |-> "bob"]),
     Dict([user |-> "bob"]),
     Dict([eventtime |-> BadTime]),
     Dict([eventtime |-> LaterTime]),
     Dict([image_url |-> "http://h/add.png"]),
     Dict([event_metadata |-> Dict([label |-> EventLabel])]),
     Dict([event_metadata |-> Dict([magnitude |-> 7])]),
     Dict([event_metadata |-> Str(<<"q">>)])}

NoValue == "unset"

\* the state every run starts in but for its inputs
Idle ==
    /\ ds = EmptyDict
    /\ met = EmptyDict
    /\ exc = "none"
    /\ madeDirs = {}
    /\ label = <<>>
    /\ files = EmptyDict
    /\ writes = <<>>
    /\ geoTif = FALSE
    /\ tilesRun = FALSE
    /\ emailsSent = <<>>
    /\ result = NoValue

\* lines 23-26: the context and the two templates are loaded; the label
\* directory may be left from an earlier run
Init ==
    /\ \E name \in MainNames, type \in MainTypes, g \in MainGeometries,
          st \in MainStartTimes, em \in Opt(MainEmails), un \in Opt({"alice"}),
          et \in Opt(MainEventTimes), iu \in Opt({"http://h/ctx.png"}),
          am \in Opt(MainAdditional) :
         context =
           WithOpt(WithOpt(WithOpt(WithOpt(WithOpt(
             [name |-> name, type |-> type, account |-> "acct",
              geojson_polygon |-> g, starttime |-> st, endtime |-> LaterTime],
             "emails", em), "username", un), "eventtime", et), "image_url", iu),
             "additional_metadata", am)
    /\ dsTemplate = [emails |-> <<<<"a">>>>]
    /\ \E old \in BOOLEAN :
         dirs = IF old
                THEN {generate_label(context.name, validate_type(context.type))}
                ELSE {}
    /\ pc = "build_ds"
    /\ Idle

Next ==
    \/ BuildDs
    \/ BuildMet
    \/ SaveMkdir
    \/ SaveWrite
    \/ DownloadBrowse
    \/ GenerateBrowse
    \/ GenerateKml
    \/ RewriteMet
    \/ MainReturn
    \/ Uncaught

Spec == Init /\ [][Next]_vars

----------------------------------------------------------------------------
(* generate_label on its own: every name up to MaxNameLen over NameChars.   *)

NameChars == {"A", "O", "I", "_", "z", " ", "!"}
LabelTypes == {<<"f">>, <<"f", " ", "!", "e">>}

InitLabel ==
    /\ \E name \in SeqsUpTo(NameChars, MaxNameLen), type \in LabelTypes :
         context = [name |-> name, type |-> type]
    /\ dsTemplate = EmptyDict
    /\ dirs = {}
    /\ pc = "call"
    /\ Idle

\* lines 36-37
ApplyGenerateLabel ==
    /\ pc = "call"
    /\ result' = generate_label(context.name, validate_type(context.type))
    /\ pc' = "done"
    /\ UNCHANGED <<context, dsTemplate, ds, met, exc, dirs, madeDirs, label,
                   files, writes, geoTif, tilesRun, emailsSent>>

SpecLabel == InitLabel /\ [][ApplyGenerateLabel]_vars

----------------------------------------------------------------------------
(* validate_geojson on its own: every ring of 1..MaxRingLen points, in each *)
(* shape the input may take.                                                *)

Points == {<<0, 0>>, <<0, 1>>, <<1, 1>>}
Rings == SeqsUpTo(Points, MaxRingLen) \ {<<>>}

Shapes(r) ==
    {Ring(r),
     Dict([coordinates |-> <<r>>]),
     Geometry(r),
     Dict([type |-> "Polygon"]),
     Encoded("json", Ring(r)),
     Encoded("json", Geometry(r)),
     Encoded("literal", Geometry(r)),
     Encoded("neither", Geometry(r))}

InitGeo ==
    /\ \E r \in Rings : \E g \in Shapes(r) : context = [geojson_polygon |-> g]
    /\ dsTemplate = EmptyDict
    /\ dirs = {}
    /\ pc = "call"
    /\ Idle

\* line 39
ApplyValidateGeojson ==
    /\ pc = "call"
    /\ result' = validate_geojson(context.geojson_polygon)
    /\ pc' = "done"
    /\ UNCHANGED <<context, dsTemplate, ds, met, exc, dirs, madeDirs, label,
                   files, writes, geoTif, tilesRun, emailsSent>>

SpecGeo == InitGeo /\ [][ApplyValidateGeojson]_vars

----------------------------------------------------------------------------
(* build_aoi_ds on its own: a context with the six required keys and, or    *)
(* not, an emails key; a template emails list that may hold duplicates.     *)

EmailChars == {"a", "b", " ", ","}
ListAddresses == {<<"a">>, <<"a", " ">>, <<"b">>}
TemplateAddresses == {<<"a">>, <<"c">>}
MaxListEmails == 2

EmailInputs ==
    {Str(s) : s \in SeqsUpTo(EmailChars, MaxEmailsLen)}
        \cup {List(l) : l \in SeqsUpTo(ListAddresses, MaxListEmails)}

InitDs ==
    /\ \E em \in Opt(EmailInputs), st \in {GoodTime, BadTime} :
         context =
           WithOpt([name |-> <<"z">>, type |-> <<"f">>, account |-> "acct",
                    geojson_polygon |-> Geometry(Square),
                    starttime |-> st, endtime |-> LaterTime],
                   "emails", em)
    /\ \E l \in SeqsUpTo(TemplateAddresses, MaxTemplateEmails) :
         dsTemplate = [emails |-> l]
    /\ dirs = {}
    /\ pc = "call"
    /\ Idle

\* line 28
ApplyBuildAoiDs ==
    /\ pc = "call"
    /\ \E r \in build_aoi_ds(context, dsTemplate) : result' = r
    /\ pc' = "done"
    /\ UNCHANGED <<context, dsTemplate, ds, met, exc, dirs, madeDirs, label,
                   files, writes, geoTif, tilesRun, emailsSent>>

SpecDs == InitDs /\ [][ApplyBuildAoiDs]_vars

----------------------------------------------------------------------------
(* parse_additional_metadata on its own: every mapping over the five keys   *)
(* the function reads, as a dict and as a string, and the inputs that are   *)
(* no mapping.                                                              *)

AdditionalDicts ==
    {WithOpt(WithOpt(WithOpt(WithOpt(WithOpt(EmptyDict,
        "user", u), "username", un), "eventtime", et), "image_url", iu),
        "event_metadata", em) :
       u \in Opt({"bob"}), un \in Opt({"bob"}),
       et \in Opt({"", GoodTime, BadTime}), iu \in Opt({"http://h/add.png"}),
       em \in Opt({Dict([label |-> EventLabel]), Dict(EmptyDict)})}

AdditionalInputs ==
    {Dict(d) : d \in AdditionalDicts}
        \cup {Encoded(x, Dict(d)) : x \in {"json", "literal"}, d \in AdditionalDicts}
        \cup {[t |-> "none"], [t |-> "empty"], List(<<>>),
              Encoded("neither", Dict(EmptyDict)), Encoded("json", List(<<>>))}

InitMet ==
    /\ \E raw \in AdditionalInputs : context = [additional_metadata |-> raw]
    /\ dsTemplate = EmptyDict
    /\ dirs = {}
    /\ pc = "call"
    /\ ds = EmptyDict
    /\ met \in {EmptyDict, [username |-> "alice"]}
    /\ exc = "none"
    /\ madeDirs = {}
    /\ label = <<>>
    /\ files = EmptyDict
    /\ writes = <<>>
    /\ geoTif = FALSE
    /\ tilesRun = FALSE
    /\ emailsSent = <<>>
    /\ result = NoValue

\* line 67
ApplyParseAdditionalMetadata ==
    /\ pc = "call"
    /\ result' = parse_additional_metadata(context.additional_metadata, met)
    /\ pc' = "done"
    /\ UNCHANGED <<context, dsTemplate, ds, met, exc, dirs, madeDirs, label,
                   files, writes, geoTif, tilesRun, emailsSent>>

SpecMet == InitMet /\ [][ApplyParseAdditionalMetadata]_vars

----------------------------------------------------------------------------
(* Claims about build_aoi_ds, validate_geojson and generate_label.          *)

CoreFields == {"label", "type", "account", "location", "starttime", "endtime"}

\* C1: build_aoi_ds on a minimal valid context (the six required keys with
\* valid values, no emails key) returns, without raising, a dataset record
\* with label, type, account, location, starttime and endtime populated.
C1_MinimalContextBuilds ==
    (/\ pc = "done"
     /\ "emails" \notin DOMAIN context
     /\ context.starttime = GoodTime)
        => /\ result.ok
           /\ CoreFields \subseteq DOMAIN result.val

\* the ring an input of validate_geojson carries
RingOf(g) ==
    CASE g.t = "list" -> g.ring
      [] g.t = "dict" -> g.d.coordinates[1]
      [] g.t = "str" -> IF g.denotes.t = "list"
                        THEN g.denotes.ring
                        ELSE g.denotes.d.coordinates[1]

\* the inputs C2 is about: a ring shapely accepts, given bare, inside a
\* mapping with a coordinates key, or as a string encoding either
IsShapeOfValidRing(g) ==
    /\ \/ g.t = "list"
       \/ g.t = "dict" /\ "coordinates" \in DOMAIN g.d
       \/ g.t = "str" /\ g.syntax # "neither"
    /\ Cardinality(Range(RingOf(g))) >= 3

\* C2: for every valid ring, validate_geojson succeeds on the bare ring, on
\* the mapping {'coordinates': [ring]} and on a string encoding either, and
\* returns the same normalized Polygon for all of them.
C2_AllShapesAccepted ==
    (pc = "done" /\ IsShapeOfValidRing(context.geojson_polygon))
        => /\ result.ok
           /\ result.val = [type |-> "Polygon",
                            coordinates |->
                              <<CloseRing(RingOf(context.geojson_polygon))>>]

\* C3: generate_label returns 'AOI_' + type + '_' + n, n being the sanitized
\* name without one literal leading 'AOI_' if it starts with it, and the
\* sanitized name itself otherwise: nothing after that prefix is removed.
C3_OnlyLiteralPrefixRemoved ==
    pc = "done"
        => LET s == Sanitize(context.name)
               n == IF StartsWith(s, AOI_) THEN StripPrefixLiteral(s) ELSE s
           IN  result = AOI_ \o validate_type(context.type) \o <<"_">> \o n

----------------------------------------------------------------------------
(* Claims about parse_additional_metadata and the emails of build_aoi_ds.   *)

\* C6: for a structured mapping raw, parse_additional_metadata(raw, met)
\* sets met['username'] to raw['username'] exactly when raw has the key
\* username, leaves username as it was when raw has not, and raises nothing
\* but the event-time parse failure.
C6_UsernameCopiedIffPresent ==
    (pc = "done" /\ context.additional_metadata.t = "dict")
        => LET a == context.additional_metadata.d
           IN  /\ ~result.ok => result.err = TimeParseError
               /\ (result.ok /\ "username" \in DOMAIN a)
                    => /\ "username" \in DOMAIN result.val
                       /\ result.val.username = a.username
               /\ (result.ok /\ "username" \notin DOMAIN a)
                    => /\ "username" \in DOMAIN result.val <=> "username" \in DOMAIN met
                       /\ "username" \in DOMAIN met
                            => result.val.username = met.username

\* the addresses a context's emails value holds: the items of a list, the
\* maximal comma-free stretches of a string, each without its spaces
NoSpaces(s) == SelectSeq(s, LAMBDA c : c # " ")
ContextAddresses(e) ==
    IF e.t = "list"
    THEN {NoSpaces(e.l[i]) : i \in DOMAIN e.l}
    ELSE LET s == e.s
             Starts == {i \in 1..(Len(s) + 1) : i = 1 \/ s[i - 1] = ","}
             Ends == {j \in 0..Len(s) : j = Len(s) \/ s[j + 1] = ","}
         IN  {NoSpaces(SubSeq(s, i, j)) :
                <<i, j>> \in {x \in Starts \X Ends :
                                /\ x[1] <= x[2] + 1
                                /\ \A k \in x[1]..x[2] : s[k] # ","}}

\* C9: when the context has an emails key, the emails of the record that
\* build_aoi_ds returns hold no address twice and are, as a set, the
\* template's default emails together with the space-stripped addresses of
\* the context.
C9_EmailsDeduplicatedUnion ==
    (pc = "done" /\ "emails" \in DOMAIN context /\ result.ok)
        => LET out == result.val.emails
           IN  /\ \A i, j \in DOMAIN out : out[i] = out[j] => i = j
               /\ Range(out) = Range(dsTemplate.emails)
                                  \cup ContextAddresses(context.emails)

\* a return of build_aoi_ds where the template repeats an address and the
\* context gives, with a space, an address the template has too
C9_Witness ==
    /\ pc = "done"
    /\ "emails" \in DOMAIN context
    /\ result.ok
    /\ dsTemplate.emails = <<<<"a">>, <<"a">>>>
    /\ context.emails = Str(<<"a", " ", ",", "b">>)
    /\ Len(result.val.emails) = 2

----------------------------------------------------------------------------
(* Claims about the run of main.                                            *)

\* C4: a run in which a fatal validation error occurred (a time, geometry or
\* additional-metadata parse failure) has created no directory and written
\* no dataset or met file, at any point.
C4_NoOutputOnFatalError ==
    exc \in FatalValidationErrors
        => /\ madeDirs = {}
           /\ writes = <<>>
           /\ files = EmptyDict

\* a run that build_aoi_met, the last stage before save_files, has ended
\* with the additional-metadata parse failure
C4_Witness ==
    /\ pc = "crashed"
    /\ exc = MetadataParseError
    /\ CoreFields \subseteq DOMAIN ds

\* C5: every invocation of the script has sent exactly one email when it
\* ends, whether main returned or raised.
C5_OneEmailPerInvocation ==
    pc \in {"exit", "crashed"} => Len(emailsSent) = 1

\* how often the run dumped the met file
MetWrites == Cardinality({i \in DOMAIN writes : writes[i] = met_path(label)})

\* C7: tiles is set in the metadata record, and the met file written a
\* second time, only in runs where generate_kml found the .geo.tif input
\* and invoked the tiling tool.
C7_TilesOnlyWhenTilingRan ==
    ("tiles" \in DOMAIN met \/ MetWrites > 1) => tilesRun

\* the event_metadata the context's additional_metadata carries, if any
ContextEventMetadata ==
    IF "additional_metadata" \notin DOMAIN context
    THEN [has |-> FALSE]
    ELSE LET am == context.additional_metadata
             a == IF am.t = "str" /\ am.syntax # "neither" THEN am.denotes ELSE am
         IN  IF a.t = "dict" /\ "event_metadata" \in DOMAIN a.d
             THEN [has |-> TRUE, v |-> a.d.event_metadata]
             ELSE [has |-> FALSE]

ContextHasEventLabel ==
    /\ ContextEventMetadata.has
    /\ ContextEventMetadata.v.t = "dict"
    /\ "label" \in DOMAIN ContextEventMetadata.v.d

ContextLabel == generate_label(context.name, validate_type(context.type))

Written == Len(writes) >= 2

====
